---- MODULE Spec2Model ----
(***************************************************************************)
(* ipld-proofs: the recording blockstore (ProofGenerator), the lazy CBOR   *)
(* link scanner (LinkScanner), the proof-chain search                      *)
(* (generate_proof_raw) and the Proof object (validate, root, wire form).  *)
(*                                                                         *)
(* Bytes are integers 0..255, byte strings are sequences of bytes.  A      *)
(* reader position is a 0-based offset: the byte at offset p of bz is      *)
(* bz[p + 1].                                                              *)
(***************************************************************************)
EXTENDS Integers, Sequences, FiniteSets, TLC

(***************************************************************************)
(* usize / u64 values.  The scanner's `extra` and `remaining` are 64-bit   *)
(* machine words; they are kept as four big-endian 16-bit limbs so that    *)
(* every value up to 2^64 - 1 is represented exactly and additions wrap    *)
(* at the machine width.                                                   *)
(***************************************************************************)
Limb == 256 * 256

U64Of(n) == <<0, 0, n \div Limb, n % Limb>>

U64Zero == U64Of(0)

U64One == U64Of(1)

\* The value fits below 2^31, so it can be used as a plain integer.
U64IsSmall(a) == a[1] = 0 /\ a[2] = 0 /\ a[3] < 32768

U64Small(a) == a[3] * Limb + a[4]

\* a <= n for a small plain integer n.
U64Leq(a, n) == U64IsSmall(a) /\ U64Small(a) <= n

\* Limb-wise addition: the wrapped sum and the carry out of bit 63.
U64Add(a, b) ==
    LET s4 == a[4] + b[4]
        s3 == a[3] + b[3] + (s4 \div Limb)
        s2 == a[2] + b[2] + (s3 \div Limb)
        s1 == a[1] + b[1] + (s2 \div Limb)
    IN  [v |-> <<s1 % Limb, s2 % Limb, s3 % Limb, s4 % Limb>>,
         carry |-> s1 \div Limb > 0]

\* Limb-wise subtraction: the wrapped difference and the borrow.
U64Sub(a, b) ==
    LET d4 == a[4] - b[4]
        b4 == IF d4 < 0 THEN 1 ELSE 0
        d3 == a[3] - b[3] - b4
        b3 == IF d3 < 0 THEN 1 ELSE 0
        d2 == a[2] - b[2] - b3
        b2 == IF d2 < 0 THEN 1 ELSE 0
        d1 == a[1] - b[1] - b2
    IN  [v |-> <<d1 % Limb, d2 % Limb, d3 % Limb, d4 % Limb>>,
         borrow |-> d1 < 0]

\* `x as i64` is negative exactly when bit 63 is set.
I64Negative(a) == a[1] >= 32768

\* The magnitude 2^64 - a of a negative `a as i64`.
I64Magnitude(a) == U64Sub(U64Zero, a).v

(***************************************************************************)
(* std::io::Cursor over a byte slice.                                      *)
(***************************************************************************)
\* Offsets past the end all behave alike (every later read fails), so a
\* forward seek beyond the slice is recorded as the offset Len(bz) + 1.
PastEnd(bz) == Len(bz) + 1

\* Cursor::seek(SeekFrom::Current(extra as i64)) from offset pos.
CursorSeek(bz, pos, extra) ==
    IF I64Negative(extra)
    THEN LET m == I64Magnitude(extra)
         IN  IF U64IsSmall(m) /\ U64Small(m) <= pos
             THEN [ok |-> TRUE, pos |-> pos - U64Small(m)]
             ELSE [ok |-> FALSE, pos |-> pos]
    ELSE IF U64IsSmall(extra) /\ U64Small(extra) <= Len(bz) - pos
         THEN [ok |-> TRUE, pos |-> pos + U64Small(extra)]
         ELSE [ok |-> TRUE, pos |-> PastEnd(bz)]

\* Read::read_exact of n bytes at offset pos succeeds when n bytes are left.
CanRead(bz, pos, n) == pos + n <= Len(bz)

\* A read_exact that fails leaves the cursor at the end of the slice.
EofPos(bz) == Len(bz)

\* BigEndian::read_u16 / read_u32 / read_u64 of the n bytes at offset pos.
BE16(bz, pos) == bz[pos + 1] * 256 + bz[pos + 2]

BEWord(bz, pos, n) ==
    IF n = 2 THEN <<0, 0, 0, BE16(bz, pos)>>
    ELSE IF n = 4 THEN <<0, 0, BE16(bz, pos), BE16(bz, pos + 2)>>
    ELSE <<BE16(bz, pos), BE16(bz, pos + 2), BE16(bz, pos + 4), BE16(bz, pos + 6)>>

\* The width in bytes of the value that follows a header byte with low
\* bits 25, 26, 27.
WideLen(low) == IF low = 25 THEN 2 ELSE IF low = 26 THEN 4 ELSE 8

(***************************************************************************)
(* cbor_read_header_buf: one CBOR header at offset pos.                    *)
(***************************************************************************)
\* Err(..), with the reader at offset p: the bytes read before the header
\* was refused stay consumed.
HeaderErr(p) == [ok |-> FALSE, maj |-> 0, extra |-> U64Zero, pos |-> p]

HeaderOk(m, e, p) == [ok |-> TRUE, maj |-> m, extra |-> e, pos |-> p]

\* `first & 0x1f` is 25, 26 or 27: the value is the next n = 2, 4 or 8
\* bytes, and must not fit the next smaller width.
HeaderWide(maj, val, n, p) ==
    IF (n = 2 /\ U64Leq(val, 255)) \/ (n = 4 /\ val[3] = 0)
          \/ (n = 8 /\ val[1] = 0 /\ val[2] = 0)
    THEN HeaderErr(p)
    ELSE HeaderOk(maj, val, p)

HeaderLow(bz, pos, maj, low) ==
    IF low < 24 THEN HeaderOk(maj, U64Of(low), pos + 1)
    ELSE IF low = 24
    THEN IF ~CanRead(bz, pos + 1, 1) THEN HeaderErr(EofPos(bz))
         ELSE IF bz[pos + 2] < 24 THEN HeaderErr(pos + 2)
         ELSE HeaderOk(maj, U64Of(bz[pos + 2]), pos + 2)
    ELSE IF low \in {25, 26, 27}
    THEN IF ~CanRead(bz, pos + 1, WideLen(low)) THEN HeaderErr(EofPos(bz))
         ELSE HeaderWide(maj, BEWord(bz, pos + 1, WideLen(low)), WideLen(low),
                         pos + 1 + WideLen(low))
    ELSE HeaderErr(pos + 1)

cbor_read_header_buf(bz, pos) ==
    IF ~CanRead(bz, pos, 1) THEN HeaderErr(EofPos(bz))
    ELSE HeaderLow(bz, pos, bz[pos + 1] \div 32, bz[pos + 1] % 32)

(***************************************************************************)
(* Content identifiers (the cid crate, used through Cid::try_from,         *)
(* Cid::to_bytes and cid::new_from_cbor).  A CID is version 1, a codec and *)
(* a multihash (hash code, digest).  Its byte form is                      *)
(*   varint(version) varint(codec) varint(code) varint(len) digest.        *)
(***************************************************************************)
DagCBOR == 113

Blake2b256 == 45600

Sha2_256 == 18

\* const DEFAULT_HASH_CODE: the one hash the generator and validator use.
DEFAULT_HASH_CODE == Blake2b256

HashCodes == {Blake2b256, Sha2_256}

RECURSIVE Varint(_)
Varint(n) == IF n < 128 THEN <<n>> ELSE <<128 + (n % 128)>> \o Varint(n \div 128)

\* Unsigned varint at offset pos; encodings longer than four bytes are
\* beyond every code this model uses and are rejected.
VarintMore(b, r) == [ok |-> r.ok, val |-> (b - 128) + 128 * r.val, pos |-> r.pos]

RECURSIVE VarintDecode(_, _, _)
VarintDecode(bz, pos, depth) ==
    IF depth > 4 \/ pos >= Len(bz) THEN [ok |-> FALSE, val |-> 0, pos |-> pos]
    ELSE IF bz[pos + 1] < 128 THEN [ok |-> TRUE, val |-> bz[pos + 1], pos |-> pos + 1]
    ELSE VarintMore(bz[pos + 1], VarintDecode(bz, pos + 1, depth + 1))

\* The digest of a block under a hash code.  The real digests are 32 bytes
\* of Blake2b / SHA-2; the model keeps one byte of a rolling hash, and
\* HashInjective below states the collision freedom the real hashes give.
RECURSIVE Roll(_, _, _)
Roll(bz, i, h) == IF i > Len(bz) THEN h ELSE Roll(bz, i + 1, (h * 31 + bz[i] + 7) % 251)

Digest(bz, code) == <<Roll(bz, 1, code % 251)>>

MkCid(codec, code, digest) ==
    [version |-> 1, codec |-> codec, code |-> code, digest |-> digest]

\* cid::new_from_cbor(bz, code)
new_from_cbor(bz, code) == MkCid(DagCBOR, code, Digest(bz, code))

\* Cid::to_bytes
CidToBytes(c) ==
    Varint(c.version) \o Varint(c.codec) \o Varint(c.code)
        \o Varint(Len(c.digest)) \o c.digest

NoCid == [ok |-> FALSE, cid |-> MkCid(0, 0, <<>>)]

\* k consecutive varints from offset pos.
RECURSIVE VarintFields(_, _, _, _)
VarintFieldsNext(bz, k, acc, d) ==
    IF ~d.ok THEN [ok |-> FALSE, vals |-> acc, pos |-> d.pos]
    ELSE VarintFields(bz, d.pos, k - 1, Append(acc, d.val))

VarintFields(bz, pos, k, acc) ==
    IF k = 0 THEN [ok |-> TRUE, vals |-> acc, pos |-> pos]
    ELSE VarintFieldsNext(bz, k, acc, VarintDecode(bz, pos, 1))

\* f holds the fields version, codec, hash code, digest length.
CidFromFields(bz, f) ==
    IF ~f.ok THEN NoCid
    ELSE IF f.vals[1] # 1 \/ f.vals[2] \notin {85, 112, 113} THEN NoCid
    ELSE IF Len(bz) - f.pos # f.vals[4] THEN NoCid
    ELSE [ok |-> TRUE,
          cid |-> MkCid(f.vals[2], f.vals[3], SubSeq(bz, f.pos + 1, Len(bz)))]

\* Cid::try_from(&[u8]): version 1, a known codec, and a multihash whose
\* declared digest length is exactly the rest of the input.
CidTryFrom(bz) == CidFromFields(bz, VarintFields(bz, 0, 4, <<>>))

(***************************************************************************)
(* LinkScanner: the lazy iterator over the tag-42 links of a block.        *)
(***************************************************************************)
\* scratch: [u8; 70]
ScratchLen == 70

\* extra > 100 ends the sequence
MaxCidLen == 100

\* LinkScanner::new: reader at offset 0, one item to consume.
ScannerNew == [pos |-> 0, remaining |-> U64One]

\* A checked word operation: with overflow checks (debug builds) an
\* overflow panics, without them (release builds) the result wraps.
Checked(wrapped, overflow, chk) == [panic |-> overflow /\ chk, v |-> wrapped]

AddWith(s, chk) == Checked(s.v, s.carry, chk)

\* `remaining += n`
AddRemaining(rem, n, chk) == AddWith(U64Add(rem, n), chk)

SubWith(d, chk) == Checked(d.v, d.borrow, chk)

\* `remaining -= 1`
DecRemaining(rem, chk) == SubWith(U64Sub(rem, U64One), chk)

\* The outcome of one loop iteration of next(): kind is "continue" (loop
\* again), "yield" (return Some(cid)), "none" (return None) or "panic".
StepOut(k, p, r, c) == [kind |-> k, pos |-> p, remaining |-> r, cid |-> c]

StepDec(p, r, d) ==
    IF d.panic THEN StepOut("panic", p, r, NoCid.cid)
    ELSE StepOut("continue", p, d.v, NoCid.cid)

\* The end of one loop iteration: `self.remaining -= 1`.
StepDone(p, r, chk) == StepDec(p, r, DecRemaining(r, chk))

\* `self.remaining += n` and then the end of the iteration.
StepAdd(p, r, a, chk) ==
    IF a.panic THEN StepOut("panic", p, r, NoCid.cid)
    ELSE StepDone(p, a.v, chk)

\* `self.remaining += extra * 2` and then the end of the iteration.
StepAddTwice(p, r, m, chk) ==
    IF m.panic THEN StepOut("panic", p, r, NoCid.cid)
    ELSE StepAdd(p, r, AddRemaining(r, m.v, chk), chk)

\* The string branch, after the seek.
StepSeek(p, r, s, chk) ==
    IF ~s.ok THEN StepOut("none", p, r, NoCid.cid)
    ELSE StepDone(s.pos, r, chk)

\* The link yielded from the n payload bytes that end at offset p.
StepYield(p, r, c, d) ==
    IF ~c.ok THEN StepOut("none", p, r, NoCid.cid)
    ELSE IF d.panic THEN StepOut("panic", p, r, NoCid.cid)
    ELSE StepOut("yield", p, d.v, c.cid)

\* The tag-42 branch of next() after its payload header h: the read into
\* scratch and the CID parse of scratch[1..extra].
ScanLinkOn(bz, pos, rem, chk, h) ==
    IF ~h.ok THEN StepOut("none", h.pos, rem, NoCid.cid)
    ELSE IF h.maj # 2 \/ ~U64Leq(h.extra, MaxCidLen)
    THEN StepOut("none", h.pos, rem, NoCid.cid)
    \* &mut self.scratch[..extra]: range end past the buffer
    ELSE IF U64Small(h.extra) > ScratchLen THEN StepOut("panic", h.pos, rem, NoCid.cid)
    ELSE IF ~CanRead(bz, h.pos, U64Small(h.extra))
    THEN StepOut("none", EofPos(bz), rem, NoCid.cid)
    \* &self.scratch[1..extra]: range start past its end
    ELSE IF U64Small(h.extra) < 1 THEN StepOut("panic", h.pos, rem, NoCid.cid)
    ELSE StepYield(h.pos + U64Small(h.extra), rem,
                   CidTryFrom(SubSeq(bz, h.pos + 2, h.pos + U64Small(h.extra))),
                   DecRemaining(rem, chk))

\* The tag-42 branch of next(), from the offset after the tag header.
ScanLink(bz, pos, rem, chk) ==
    ScanLinkOn(bz, pos, rem, chk, cbor_read_header_buf(bz, pos))

\* The `match maj` of next() on the header h.
ScanStepOn(bz, pos, rem, chk, h) ==
    IF ~h.ok THEN StepOut("none", h.pos, rem, NoCid.cid)
    ELSE IF h.maj \in {0, 1, 7} THEN StepDone(h.pos, rem, chk)
    ELSE IF h.maj \in {2, 3}
    THEN StepSeek(h.pos, rem, CursorSeek(bz, h.pos, h.extra), chk)
    ELSE IF h.maj = 6
    THEN IF h.extra = U64Of(42) THEN ScanLink(bz, h.pos, rem, chk)
         ELSE StepAdd(h.pos, rem, AddRemaining(rem, U64One, chk), chk)
    ELSE IF h.maj = 4
    THEN StepAdd(h.pos, rem, AddRemaining(rem, h.extra, chk), chk)
    ELSE IF h.maj = 5
    THEN StepAddTwice(h.pos, rem, AddWith(U64Add(h.extra, h.extra), chk), chk)
    ELSE StepOut("none", h.pos, rem, NoCid.cid)

\* One iteration of `while self.remaining > 0` in next(), entered with
\* remaining > 0.
ScanStep(bz, pos, rem, chk) == ScanStepOn(bz, pos, rem, chk, cbor_read_header_buf(bz, pos))

\* The scan loop may revisit offsets after a backward seek; the model runs
\* at most MaxScanSteps header reads per block and reports "running" when
\* the loop has not ended by then.
MaxScanSteps == 48

NextOut(k, r, steps) ==
    [kind |-> k, pos |-> r.pos, remaining |-> r.remaining, cid |-> r.cid, steps |-> steps]

\* LinkScanner::next: loop until a link is yielded, the sequence ends or
\* the call panics.  st is [pos, remaining]; steps counts header reads.
RECURSIVE LinkScanner_next(_, _, _, _)
NextAfter(bz, chk, steps, r) ==
    IF r.kind = "continue" THEN LinkScanner_next(bz, r, chk, steps + 1)
    ELSE NextOut(r.kind, r, steps + 1)

LinkScanner_next(bz, st, chk, steps) ==
    IF st.remaining = U64Zero
    THEN NextOut("none", StepOut("none", st.pos, st.remaining, NoCid.cid), steps)
    ELSE IF steps >= MaxScanSteps
    THEN NextOut("running", StepOut("running", st.pos, st.remaining, NoCid.cid), steps)
    ELSE NextAfter(bz, chk, steps, ScanStep(bz, st.pos, st.remaining, chk))

\* Driving the iterator to its end, as `for link in scanner` and
\* Iterator::any do: the links yielded in order, and how the sequence ended
\* ("none", "panic", "running").
RECURSIVE ScanFrom(_, _, _, _, _)
ScanAfter(bz, chk, acc, r) ==
    IF r.kind = "yield" THEN ScanFrom(bz, r, chk, r.steps, Append(acc, r.cid))
    ELSE [links |-> acc, end |-> r.kind, pos |-> r.pos,
          remaining |-> r.remaining, steps |-> r.steps]

ScanFrom(bz, st, chk, steps, acc) ==
    ScanAfter(bz, chk, acc, LinkScanner_next(bz, st, chk, steps))

\* LinkScanner::from(bytes) run to its end.
Scan(bz, chk) == ScanFrom(bz, ScannerNew, chk, 0, <<>>)

(***************************************************************************)
(* Blocks.  The blocks the model reads, writes and proves are dag-cbor     *)
(* encodings built bottom-up, each parent embedding the CID of its child   *)
(* as a tag-42 byte string (0x00 prefix, then the CID's bytes).            *)
(***************************************************************************)
\* A definite-length CBOR header of major type maj for n < 256.
CborHead(maj, n) == IF n < 24 THEN <<maj * 32 + n>> ELSE <<maj * 32 + 24, n>>

\* A link: tag 42 on the byte string 0x00 ++ cid bytes.
EncLink(c) ==
    LET b == CidToBytes(c)
    IN  CborHead(6, 42) \o CborHead(2, Len(b) + 1) \o <<0>> \o b

\* The identity the generator and validator give a block.
CidOf(bz) == new_from_cbor(bz, DEFAULT_HASH_CODE)

\* 8u8: the block being proven.
BlkLeaf == <<8>>

\* [5u8, leaf]
BlkMid == CborHead(4, 2) \o <<5>> \o EncLink(CidOf(BlkLeaf))

\* {"d": mid}
BlkRoot == CborHead(5, 1) \o <<97, 100>> \o EncLink(CidOf(BlkMid))

\* [leaf]: a second parent of the leaf that nothing links to under the
\* default hash.
BlkDead == CborHead(4, 1) \o EncLink(CidOf(BlkLeaf))

\* [link to BlkDead's SHA2-256 CID]
BlkAlien == CborHead(4, 1) \o EncLink(new_from_cbor(BlkDead, Sha2_256))

\* "u": a block outside the DAG.
BlkUnrel == <<97, 117>>

\* Tag 42 on an empty byte string.
BlkBad == <<216, 42, 64>>

\* An array of two whose first item is a byte string declaring the length
\* 2^64-10: the seek goes back to offset 0.
BlkLoop == <<130, 91, 255, 255, 255, 255, 255, 255, 255, 246>>

\* An array header declaring 2^64-1 items and then a link to the leaf: the
\* counter overflows on the header, and the build without overflow checks
\* goes on to the link.
BlkWrap == <<155, 255, 255, 255, 255, 255, 255, 255, 255>> \o EncLink(CidOf(BlkLeaf))

Blocks == {BlkLeaf, BlkMid, BlkRoot, BlkDead, BlkAlien, BlkUnrel, BlkBad}

\* Every (block, hash code) pair of the model has its own CID, as the
\* collision resistance of the real hashes gives.
HashInjective ==
    \A b1, b2 \in Blocks : \A c \in HashCodes :
        Digest(b1, c) = Digest(b2, c) => b1 = b2

\* The scans of the blocks, in the build with overflow checks (TRUE) and in
\* the build without (FALSE).
ScanTable == [chk \in BOOLEAN |-> [b \in Blocks |-> Scan(b, chk)]]

\* None of the blocks overflows the scanner's counter, so their scan is
\* the same in both builds.
BuildIndependent == \A b \in Blocks : ScanTable[FALSE][b] = ScanTable[TRUE][b]

LoopScan == [chk \in BOOLEAN |-> Scan(BlkLoop, chk)]

WrapScan == [chk \in BOOLEAN |-> Scan(BlkWrap, chk)]

\* LinkScanner::from(bytes) driven to its end, in the build chk.
LinkScanIn(bz, chk) ==
    IF bz \in Blocks THEN ScanTable[chk][bz]
    ELSE IF bz = BlkLoop THEN LoopScan[chk]
    ELSE IF bz = BlkWrap THEN WrapScan[chk]
    ELSE Scan(bz, chk)

\* The build the program runs as: with overflow checks (a panic where an
\* addition or subtraction leaves the word) or without (wrapping).
VARIABLE overflow_checks

\* LinkScanner::from(bytes) driven to its end.
LinkScan(bz) == LinkScanIn(bz, overflow_checks)

\* The links `for link in scanner` yields.
Links(bz) == LinkScan(bz).links

SeqHas(s, x) == \E i \in 1..Len(s) : s[i] = x

(***************************************************************************)
(* Proof: validate, root, and the wire form.                               *)
(***************************************************************************)
ValidateOut(k, link, data) == [kind |-> k, link |-> link, data |-> data]

\* The loop of Proof::validate over nodes[i..], prev being the CID of the
\* node before.  Iterator::any stops at the first matching link; when there
\* is none it runs the scanner to its end.
RECURSIVE ValidateFrom(_, _, _)
ValidateNode(nodes, i, prev_cid, sc) ==
    IF SeqHas(sc.links, prev_cid) THEN ValidateFrom(nodes, i + 1, CidOf(nodes[i]))
    ELSE IF sc.end = "panic" THEN ValidateOut("Panic", NoCid.cid, <<>>)
    ELSE IF sc.end = "running" THEN ValidateOut("Running", NoCid.cid, <<>>)
    ELSE ValidateOut("InvalidProof", prev_cid, nodes[i])

ValidateFrom(nodes, i, prev_cid) ==
    IF i > Len(nodes) THEN ValidateOut("Ok", NoCid.cid, <<>>)
    ELSE ValidateNode(nodes, i, prev_cid, LinkScan(nodes[i]))

\* Proof::validate
validate(nodes) ==
    IF nodes = <<>> THEN ValidateOut("Panic", NoCid.cid, <<>>)
    ELSE ValidateFrom(nodes, 2, CidOf(nodes[1]))

\* Proof::root
root(nodes) ==
    IF nodes = <<>> THEN [panic |-> TRUE, cid |-> NoCid.cid]
    ELSE [panic |-> FALSE, cid |-> CidOf(nodes[Len(nodes)])]

RECURSIVE SerializeElems(_, _)
SerializeElems(nodes, i) ==
    IF i > Len(nodes) THEN <<>>
    ELSE CborHead(2, Len(nodes[i])) \o nodes[i] \o SerializeElems(nodes, i + 1)

\* A serializer that would write the nodes root first, which the code does
\* not.
SerializeRootFirst(nodes) ==
    CborHead(4, Len(nodes))
        \o SerializeElems([i \in 1..Len(nodes) |-> nodes[Len(nodes) + 1 - i]], 1)

\* impl Serialize for Proof: a CBOR array of byte strings, leaf first.
Serialize(nodes) == CborHead(4, Len(nodes)) \o SerializeElems(nodes, 1)

\* visit_seq: next_element::<ByteBuf>() n times from offset pos.  ByteBuf
\* takes a byte string or a text string.
RECURSIVE VisitSeq(_, _, _, _)
VisitElem(bz, n, acc, h) ==
    IF ~h.ok \/ h.maj \notin {2, 3} \/ ~U64IsSmall(h.extra)
    THEN [ok |-> FALSE, nodes |-> <<>>]
    ELSE IF ~CanRead(bz, h.pos, U64Small(h.extra))
    THEN [ok |-> FALSE, nodes |-> <<>>]
    ELSE VisitSeq(bz, h.pos + U64Small(h.extra), n - 1,
                  Append(acc, SubSeq(bz, h.pos + 1, h.pos + U64Small(h.extra))))

VisitSeq(bz, pos, n, acc) ==
    IF n = 0
    THEN IF pos = Len(bz) THEN [ok |-> TRUE, nodes |-> acc]
         ELSE [ok |-> FALSE, nodes |-> <<>>]
    ELSE VisitElem(bz, n, acc, cbor_read_header_buf(bz, pos))

\* impl Deserialize for Proof: deserialize_seq, then visit_seq collects the
\* elements; no check on the number of nodes.
\* The wire inputs are definite-length encodings, the
\* form Serialize writes; the indefinite-length form is rejected here.
DeserializeSeq(bz, h) ==
    IF ~h.ok \/ h.maj # 4 \/ ~U64IsSmall(h.extra)
    THEN [ok |-> FALSE, nodes |-> <<>>]
    ELSE VisitSeq(bz, h.pos, U64Small(h.extra), <<>>)

Deserialize(bz) == DeserializeSeq(bz, cbor_read_header_buf(bz, 0))

(***************************************************************************)
(* The proof-chain search of generate_proof_raw.                           *)
(***************************************************************************)
\* Option<T>: <<>> is None, <<v>> is Some(v).
None == <<>>

Some(v) == <<v>>

\* HashMap::insert(k, v), which the code does not use: the last writer wins.
EntryInsert(tbl, k, v) ==
    [x \in DOMAIN tbl \cup {k} |-> IF x = k THEN v ELSE tbl[x]]

\* HashMap::entry(k).or_insert_with(|| v): the first writer wins.
EntryOrInsert(tbl, k, v) ==
    IF k \in DOMAIN tbl THEN tbl
    ELSE [x \in DOMAIN tbl \cup {k} |-> IF x = k THEN v ELSE tbl[x]]

\* HashMap::remove(k)
MapRemove(tbl, k) == [x \in DOMAIN tbl \ {k} |-> tbl[x]]

EmptyMap == [x \in {} |-> <<>>]

\* `for link in link_buffer { scan_cache.entry(link).or_insert_with(..) }`
RECURSIVE CacheLinks(_, _, _, _)
CacheLinks(cache, links, i, entry) ==
    IF i > Len(links) THEN cache
    ELSE CacheLinks(EntryOrInsert(cache, links[i], entry), links, i + 1, entry)

GenOut(k, nodes, cur, idx) == [kind |-> k, nodes |-> nodes, cur |-> cur, scanned |-> idx]

\* The 'proof loop.  order is the sequence visited.iter() yields, idx the
\* number of entries the unvisited iterator has handed out so far, cur the
\* current CID, cache the scan_cache.
RECURSIVE ProofLoop(_, _, _, _, _, _, _)
RECURSIVE ScanUnvisited(_, _, _, _, _, _, _)
RECURSIVE ScanEntry(_, _, _, _, _, _, _, _, _, _)
ProofLoop(tbl, order, root_opt, cur, nodes, cache, idx) ==
    IF root_opt # None /\ root_opt[1] = cur THEN GenOut("Ok", nodes, cur, idx)
    ELSE IF cur \in DOMAIN cache
    THEN ProofLoop(tbl, order, root_opt, cache[cur].cid,
                   Append(nodes, cache[cur].bytes), MapRemove(cache, cur), idx)
    ELSE ScanUnvisited(tbl, order, root_opt, cur, nodes, cache, idx)

\* `for (u_cid, u_bytes) in &mut unvisited_nodes`
ScanUnvisited(tbl, order, root_opt, cur, nodes, cache, idx) ==
    IF idx >= Len(order) THEN GenOut("Ok", nodes, cur, idx)
    ELSE ScanEntry(tbl, order, root_opt, cur, nodes, cache, idx,
                   order[idx + 1], tbl[order[idx + 1]], LinkScan(tbl[order[idx + 1]]))

\* The body of the for loop on the entry (u_cid, u_bytes), sc being the
\* scan of u_bytes: the scan stops at the first link equal to cur; without
\* one it runs to its end and the links are cached.
ScanEntry(tbl, order, root_opt, cur, nodes, cache, idx, u_cid, u_bytes, sc) ==
    IF SeqHas(sc.links, cur)
    THEN ProofLoop(tbl, order, root_opt, u_cid, Append(nodes, u_bytes), cache, idx + 1)
    ELSE IF sc.end = "panic" THEN GenOut("Panic", nodes, cur, idx + 1)
    ELSE IF sc.end = "running" THEN GenOut("Running", nodes, cur, idx + 1)
    ELSE ScanUnvisited(tbl, order, root_opt, cur, nodes,
                       CacheLinks(cache, sc.links, 1, [cid |-> u_cid, bytes |-> u_bytes]),
                       idx + 1)

\* ProofGenerator::generate_proof_raw(bytes, root) over the witness table
\* tbl iterated in the given order.
GenerateFrom(tbl, order, bytes, root_opt, current_cid) ==
    IF current_cid \notin DOMAIN tbl
    THEN GenOut("NodeNotFound", <<>>, current_cid, 0)
    ELSE ProofLoop(tbl, order, root_opt, current_cid, <<bytes>>, EmptyMap, 0)

generate_proof_raw(tbl, order, bytes, root_opt) ==
    GenerateFrom(tbl, order, bytes, root_opt, new_from_cbor(bytes, DEFAULT_HASH_CODE))

\* The orders HashMap::iter may yield the entries of tbl in: all of them.
Orders(tbl) ==
    LET n == Cardinality(DOMAIN tbl)
    IN  {o \in [1..n -> DOMAIN tbl] : \A i, j \in 1..n : o[i] = o[j] => i = j}

(***************************************************************************)
(* The recorder's state.                                                   *)
(*   base    : the underlying store, key bytes -> value bytes              *)
(*   visited : the witness table, Cid -> block bytes                       *)
(*   last    : the last call made and what it returned; a Proof the caller *)
(*             holds is last.nodes                                         *)
(*   observed: history of the recorder: the block bytes it has seen, those *)
(*             get_bytes returned and those put_raw was given              *)
(*   base_calls: history: the calls the last operation made on self.base,  *)
(*             by name and in order                                        *)
(*   held:     the Proof the caller has kept from a generation call, as    *)
(*             Some(nodes), or None                                        *)
(***************************************************************************)
VARIABLES base, visited, last, observed, base_calls, held

vars == <<base, visited, last, observed, overflow_checks, base_calls, held>>

\* Result<T, E>: val is the Ok value (an Option, or <<>> for unit).
Ok(v) == [ok |-> TRUE, val |-> v]

Err == [ok |-> FALSE, val |-> <<>>]

\* Bound on the number of witness-table entries.
MaxVisited == 3

\* The store the recorder is built over already holds the DAG, each block
\* under the bytes of its default-hash CID.
DagStore ==
    LET keys == {CidToBytes(CidOf(b)) : b \in Blocks \ {BlkBad}}
    IN  [k \in keys |-> CHOOSE b \in Blocks : CidToBytes(CidOf(b)) = k]

\* Inputs of the calls.
CidInputs == {CidOf(b) : b \in Blocks \ {BlkBad}} \cup {new_from_cbor(BlkDead, Sha2_256)}

PutInputs == {<<b, DEFAULT_HASH_CODE>> : b \in Blocks \ {BlkBad}} \cup {<<BlkDead, Sha2_256>>}

RawKeys == {CidToBytes(CidOf(BlkLeaf)), <<1>>}

RawVals == {BlkUnrel}

\* What the generator-side specification rewrites the leaf's key to.
TamperVals == {BlkDead}

\* Inputs of the store-side specification.
StoreCids == {CidOf(BlkLeaf), CidOf(BlkMid), new_from_cbor(BlkDead, Sha2_256)}

StorePuts == {<<BlkLeaf, DEFAULT_HASH_CODE>>, <<BlkUnrel, DEFAULT_HASH_CODE>>,
              <<BlkDead, Sha2_256>>}

\* The key the generator-side specification rewrites behind the recorder.
LeafKey == CidToBytes(CidOf(BlkLeaf))

BulkKeys == {<<CidToBytes(CidOf(BlkLeaf)), <<1>>>>, <<<<1>>>>}

BulkPairs == {<<<<CidToBytes(CidOf(BlkLeaf)), BlkUnrel>>, <<<<1>>, BlkUnrel>>>>,
              <<<<<<1>>, BlkUnrel>>>>}

\* Items to prove, by what serde_cbor::to_vec encodes them to.
GenItems == {BlkLeaf}

GenRoots == {CidOf(BlkRoot)}

\* (bytes, root) arguments of generate_proof_raw.
GenRawInputs == {<<BlkLeaf, Some(CidOf(BlkLeaf))>>, <<BlkLeaf, Some(CidOf(BlkMid))>>,
                 <<BlkDead, None>>}

WireInputs == {Serialize(<<>>), Serialize(<<BlkLeaf>>), Serialize(<<BlkLeaf, BlkUnrel>>),
               Serialize(<<BlkLeaf, BlkMid, BlkRoot>>), Serialize(<<BlkLeaf, BlkMid, BlkDead>>),
               Serialize(<<BlkLeaf, BlkBad>>), Serialize(<<BlkLeaf, BlkWrap>>), <<8>>}

\* ProofGenerator::new(base): an empty witness table.
Init ==
    /\ base = DagStore
    /\ visited = EmptyMap
    /\ last = [op |-> "new"]
    /\ observed = {}
    /\ overflow_checks \in BOOLEAN
    /\ base_calls = <<>>
    /\ held = None

(***************************************************************************)
(* The underlying store (self.base), a key/value map whose calls may fail. *)
(***************************************************************************)
StoreRead(b, key) == IF key \in DOMAIN b THEN Some(b[key]) ELSE None

StoreWrite(b, key, value) ==
    [x \in DOMAIN b \cup {key} |-> IF x = key THEN value ELSE b[x]]

RECURSIVE StoreBulkRead(_, _, _)
StoreBulkRead(b, keys, i) ==
    IF i > Len(keys) THEN <<>>
    ELSE <<StoreRead(b, keys[i])>> \o StoreBulkRead(b, keys, i + 1)

RECURSIVE StoreBulkWrite(_, _, _)
StoreBulkWrite(b, pairs, i) ==
    IF i > Len(pairs) THEN b
    ELSE StoreBulkWrite(StoreWrite(b, pairs[i][1], pairs[i][2]), pairs, i + 1)

RECURSIVE StoreBulkDelete(_, _, _)
StoreBulkDelete(b, keys, i) ==
    IF i > Len(keys) THEN b
    ELSE StoreBulkDelete(MapRemove(b, keys[i]), keys, i + 1)

\* BlockStore::get_bytes of the base: the value under the CID's bytes.
BaseGetBytes(b, cid, fails) ==
    IF fails THEN Err ELSE Ok(StoreRead(b, CidToBytes(cid)))

(***************************************************************************)
(* impl BlockStore for ProofGenerator                                      *)
(***************************************************************************)
\* The table after get_bytes saw base_res for cid.
GetBytesVisited(tbl, cid, base_res) ==
    IF base_res.ok /\ base_res.val # None
    THEN EntryOrInsert(tbl, cid, base_res.val[1])
    ELSE tbl

\* A recorder used as a cache, which the code is not: a CID in the table is
\* answered from the table.
GetBytesReturnCached(tbl, cid, base_res) ==
    IF cid \in DOMAIN tbl THEN [ok |-> TRUE, val |-> <<tbl[cid]>>] ELSE base_res

\* What get_bytes returns: `self.base.get_bytes(cid)?` and then Ok(bytes).
GetBytesReturn(tbl, cid, base_res) == base_res

\* The bound: the call may add an entry only while the table has room.
HasRoom(cid) == cid \in DOMAIN visited \/ Cardinality(DOMAIN visited) < MaxVisited

get_bytes(cid, fails) ==
    LET base_res == BaseGetBytes(base, cid, fails)
    IN  /\ HasRoom(cid)
        /\ visited' = GetBytesVisited(visited, cid, base_res)
        /\ base' = base
        /\ last' = [op |-> "get_bytes", cid |-> cid, base_res |-> base_res,
                    res |-> GetBytesReturn(visited, cid, base_res)]
        /\ observed' = IF base_res.ok /\ base_res.val # None
                       THEN observed \cup {base_res.val[1]} ELSE observed
        /\ overflow_checks' = overflow_checks
        /\ base_calls' = <<"get_bytes">>
        /\ held' = held

\* A put_raw that would write first and record after, which the code does
\* not: a failed write leaves no entry.
PutRawVisitedAfterWrite(tbl, bytes, code, write_fails) ==
    IF write_fails THEN tbl ELSE EntryOrInsert(tbl, new_from_cbor(bytes, code), bytes)

\* The table after put_raw: the entry is made before the write is tried.
PutRawVisited(tbl, bytes, code, write_fails) ==
    EntryOrInsert(tbl, new_from_cbor(bytes, code), bytes)

\* What put_raw returns: `self.write(..)?` and then Ok(cid).
PutRawReturn(bytes, code, write_fails) ==
    IF write_fails THEN Err ELSE Ok(Some(new_from_cbor(bytes, code)))

put_raw(bytes, code, fails) ==
    LET cid == new_from_cbor(bytes, code)
    IN  /\ HasRoom(cid)
        /\ visited' = PutRawVisited(visited, bytes, code, fails)
        /\ base' = IF fails THEN base ELSE StoreWrite(base, CidToBytes(cid), bytes)
        /\ last' = [op |-> "put_raw", bytes |-> bytes, code |-> code, cid |-> cid,
                    write_failed |-> fails, res |-> PutRawReturn(bytes, code, fails)]
        /\ observed' = observed \cup {bytes}
        /\ overflow_checks' = overflow_checks
        /\ base_calls' = <<"write">>
        /\ held' = held

(***************************************************************************)
(* impl Store for ProofGenerator: every call goes straight to the base.    *)
(***************************************************************************)
\* A raw call that would drop the table entries of the CIDs whose bytes are
\* among its keys, which the code does not.
RawVisitedEvict(tbl, keys) ==
    [c \in {x \in DOMAIN tbl : ~SeqHas(keys, CidToBytes(x))} |-> tbl[c]]

\* The table after a raw key/value call.
RawVisited(tbl, keys) == tbl

RawLast(op, keys, base_res) ==
    [op |-> op, keys |-> keys, base_res |-> base_res, res |-> base_res]

read(key, fails) ==
    /\ visited' = RawVisited(visited, <<key>>)
    /\ base' = base
    /\ last' = RawLast("read", <<key>>, IF fails THEN Err ELSE Ok(StoreRead(base, key)))
    /\ observed' = observed
    /\ overflow_checks' = overflow_checks
    /\ base_calls' = <<"read">>
    /\ held' = held

write(key, value, fails) ==
    /\ visited' = RawVisited(visited, <<key>>)
    /\ base' = IF fails THEN base ELSE StoreWrite(base, key, value)
    /\ last' = RawLast("write", <<key>>, IF fails THEN Err ELSE Ok(<<>>))
    /\ observed' = observed
    /\ overflow_checks' = overflow_checks
    /\ base_calls' = <<"write">>
    /\ held' = held

delete(key, fails) ==
    /\ visited' = RawVisited(visited, <<key>>)
    /\ base' = IF fails THEN base ELSE MapRemove(base, key)
    /\ last' = RawLast("delete", <<key>>, IF fails THEN Err ELSE Ok(<<>>))
    /\ observed' = observed
    /\ overflow_checks' = overflow_checks
    /\ base_calls' = <<"delete">>
    /\ held' = held

exists(key, fails) ==
    /\ visited' = RawVisited(visited, <<key>>)
    /\ base' = base
    /\ last' = RawLast("exists", <<key>>,
                       IF fails THEN Err ELSE Ok(<<key \in DOMAIN base>>))
    /\ observed' = observed
    /\ overflow_checks' = overflow_checks
    /\ base_calls' = <<"exists">>
    /\ held' = held

bulk_read(keys, fails) ==
    /\ visited' = RawVisited(visited, keys)
    /\ base' = base
    /\ last' = RawLast("bulk_read", keys,
                       IF fails THEN Err ELSE Ok(StoreBulkRead(base, keys, 1)))
    /\ observed' = observed
    /\ overflow_checks' = overflow_checks
    /\ base_calls' = <<"bulk_read">>
    /\ held' = held

bulk_write(pairs, fails) ==
    /\ visited' = RawVisited(visited, [i \in 1..Len(pairs) |-> pairs[i][1]])
    /\ base' = IF fails THEN base ELSE StoreBulkWrite(base, pairs, 1)
    /\ last' = RawLast("bulk_write", [i \in 1..Len(pairs) |-> pairs[i][1]],
                       IF fails THEN Err ELSE Ok(<<>>))
    /\ observed' = observed
    /\ overflow_checks' = overflow_checks
    /\ base_calls' = <<"bulk_write">>
    /\ held' = held

bulk_delete(keys, fails) ==
    /\ visited' = RawVisited(visited, keys)
    /\ base' = IF fails THEN base ELSE StoreBulkDelete(base, keys, 1)
    /\ last' = RawLast("bulk_delete", keys, IF fails THEN Err ELSE Ok(<<>>))
    /\ observed' = observed
    /\ overflow_checks' = overflow_checks
    /\ base_calls' = <<"bulk_delete">>
    /\ held' = held

(***************************************************************************)
(* The generator entry points and the Proof operations.                    *)
(***************************************************************************)
\* What a generation call leaves with the caller, and for the record the
\* current CID the search ended on and the number of table entries the
\* unvisited iterator handed out.
GenLast(op, bytes, root_opt, g) ==
    [op |-> op, bytes |-> bytes, root |-> root_opt, kind |-> g.kind,
     nodes |-> g.nodes, holds |-> g.kind = "Ok", cur |-> g.cur,
     scanned |-> g.scanned]

\* generate_proof(item): item is given by its serde_cbor encoding.  The
\* body of generate_proof_raw reads self.visited under its read borrow and
\* nothing of self.base, so a generation call makes no call on the base.
generate_proof(item) ==
    /\ \E order \in Orders(visited) :
          last' = GenLast("generate_proof", item, None,
                          generate_proof_raw(visited, order, item, None))
    /\ base_calls' = <<>>
    /\ UNCHANGED <<base, visited, observed, overflow_checks, held>>

generate_proof_to_cid(item, root_cid) ==
    /\ \E order \in Orders(visited) :
          last' = GenLast("generate_proof_to_cid", item, Some(root_cid),
                          generate_proof_raw(visited, order, item, Some(root_cid)))
    /\ base_calls' = <<>>
    /\ UNCHANGED <<base, visited, observed, overflow_checks, held>>

\* A generation that would take the leaf's entry out of the table, which
\* the code does not.
generate_raw_draining(bytes, root_opt) ==
    /\ \E order \in Orders(visited) :
          last' = GenLast("generate_proof_raw", bytes, root_opt,
                          generate_proof_raw(visited, order, bytes, root_opt))
    /\ visited' = MapRemove(visited, new_from_cbor(bytes, DEFAULT_HASH_CODE))
    /\ base_calls' = <<>>
    /\ UNCHANGED <<base, observed, overflow_checks, held>>

generate_raw(bytes, root_opt) ==
    /\ \E order \in Orders(visited) :
          last' = GenLast("generate_proof_raw", bytes, root_opt,
                          generate_proof_raw(visited, order, bytes, root_opt))
    /\ base_calls' = <<>>
    /\ UNCHANGED <<base, visited, observed, overflow_checks, held>>

\* serde_cbor::from_slice::<Proof>(wire)
deserialize(wire) ==
    /\ LET d == Deserialize(wire)
       IN  last' = [op |-> "deserialize", wire |-> wire, kind |-> IF d.ok THEN "Ok" ELSE "Err",
                    nodes |-> d.nodes, holds |-> d.ok]
    /\ base_calls' = <<>>
    /\ UNCHANGED <<base, visited, observed, overflow_checks, held>>

\* The caller holds a Proof: the last call returned one, or was made on one.
HoldsProof == last.op # "new" /\ "holds" \in DOMAIN last /\ last.holds

\* proof.validate() on the Proof held.
do_validate ==
    /\ HoldsProof
    /\ last' = [op |-> "validate", nodes |-> last.nodes, holds |-> TRUE,
                out |-> validate(last.nodes)]
    /\ base_calls' = <<>>
    /\ UNCHANGED <<base, visited, observed, overflow_checks, held>>

\* proof.root() on the Proof held.
do_root ==
    /\ HoldsProof
    /\ last' = [op |-> "root", nodes |-> last.nodes, holds |-> TRUE,
                out |-> root(last.nodes)]
    /\ base_calls' = <<>>
    /\ UNCHANGED <<base, visited, observed, overflow_checks, held>>

\* The recorder used to read, write and prove, with the store rewritten
\* behind it.
Next ==
    \/ \E c \in CidInputs : get_bytes(c, FALSE)
    \/ \E p \in PutInputs : put_raw(p[1], p[2], FALSE)
    \/ \E v \in TamperVals : write(LeafKey, v, FALSE)
    \/ \E b \in GenItems : generate_proof(b)
    \/ \E b \in GenItems, r \in GenRoots : generate_proof_to_cid(b, r)
    \/ \E g \in GenRawInputs : generate_raw(g[1], g[2])
    \/ \E w \in WireInputs : deserialize(w)
    \/ do_validate
    \/ do_root

Spec == Init /\ [][Next]_vars

\* The recorder used as a block store and as a key/value store.
NextStore ==
    \/ \E c \in StoreCids, f \in BOOLEAN : get_bytes(c, f)
    \/ \E p \in StorePuts, f \in BOOLEAN : put_raw(p[1], p[2], f)
    \/ \E k \in RawKeys, f \in BOOLEAN : read(k, f)
    \/ \E k \in RawKeys, v \in RawVals, f \in BOOLEAN : write(k, v, f)
    \/ \E k \in RawKeys, f \in BOOLEAN : delete(k, f)
    \/ \E k \in RawKeys, f \in BOOLEAN : exists(k, f)
    \/ \E ks \in BulkKeys, f \in BOOLEAN : bulk_read(ks, f)
    \/ \E ps \in BulkPairs, f \in BOOLEAN : bulk_write(ps, f)
    \/ \E ks \in BulkKeys, f \in BOOLEAN : bulk_delete(ks, f)
    \/ \E b \in GenItems : generate_raw(b, None)

SpecStore == Init /\ [][NextStore]_vars

(***************************************************************************)
(* Properties of proof generation, stated on the call recorded in last.    *)
(* Generation leaves the witness table alone, so `visited` in the state    *)
(* after a generation call is the table that call searched.                *)
(***************************************************************************)
IsGeneration ==
    last.op \in {"generate_proof", "generate_proof_to_cid", "generate_proof_raw"}

\* Every witness-table key is the default-code CID of the bytes stored
\* under it.
TableGenuine == \A k \in DOMAIN visited : k = CidOf(visited[k])

\* Every witness-table key is the CID of the bytes stored under it, under
\* the hash code the key itself names: what get_bytes on an honest store and
\* put_raw with any hash code leave behind.
TableHashKeyed ==
    \A k \in DOMAIN visited : k = new_from_cbor(visited[k], k.code)

\* The witnessed blocks that link to one of the CIDs in S, added to S.
Up(S) ==
    S \cup {k \in DOMAIN visited : \E c \in S : SeqHas(Links(visited[k]), c)}

RECURSIVE UpClosure(_, _)
UpClosure(S, n) == IF n = 0 THEN S ELSE UpClosure(Up(S), n - 1)

\* The CIDs some path of parent links in the witness table leads to from c.
Ancestors(c) == UpClosure({c}, Cardinality(DOMAIN visited))

TableAcyclic ==
    \A k \in DOMAIN visited :
        k \notin UpClosure(Up({k}) \ {k}, Cardinality(DOMAIN visited)) \/ Up({k}) = {k}

\* C1: when the witness table holds an acyclic graph of blocks, each filed
\* under its own CID, in which some path of links leads from the leaf up to
\* the requested root, generation returns a proof whose first node is the
\* leaf, whose last node hashes to that root and which validates,
\* whichever way the blocks link (several parents per block included).
C1_ProofReachesRoot ==
    ( /\ last.op = "generate_proof_raw"
      /\ last.root # None
      /\ TableGenuine
      /\ TableAcyclic
      /\ CidOf(last.bytes) \in DOMAIN visited
      /\ last.root[1] \in Ancestors(CidOf(last.bytes)) )
    => ( /\ last.kind = "Ok"
         /\ last.nodes # <<>>
         /\ last.nodes[1] = last.bytes
         /\ root(last.nodes).cid = last.root[1]
         /\ validate(last.nodes).kind = "Ok" )

\* C2: every proof generation returns as Ok passes validate(), for blocks
\* the recorder saw through get_bytes on a store whose keys are the CIDs of
\* its values and through put_raw with any hash code.
C2_GeneratedProofValidates ==
    (IsGeneration /\ last.kind = "Ok" /\ TableHashKeyed)
    => validate(last.nodes).kind = "Ok"

\* C3: generate_proof_to_cid returns Ok only with a chain that ends in a
\* block hashing to root_cid; when the root is not linked it is an error.
C3_ToCidOkOnlyAtRoot ==
    (last.op = "generate_proof_to_cid" /\ last.kind = "Ok")
    => (last.nodes # <<>> /\ root(last.nodes).cid = last.root[1])

\* C4: generation fails with NodeNotFound exactly when the bytes asked
\* about were never seen by the recorder, neither returned by get_bytes nor
\* given to put_raw.
C4_NodeNotFoundIffUnobserved ==
    IsGeneration => (last.kind = "NodeNotFound" <=> last.bytes \notin observed)

\* C5: no Proof a caller holds has zero nodes, whether generation returned
\* it or deserialization did.
C5_ProofNeverEmpty == HoldsProof => Len(last.nodes) > 0

\* The positions i of a proof whose node i does not link to the default
\* CID of node i-1.
BrokenPairs(nodes) ==
    {i \in 2..Len(nodes) : ~SeqHas(Links(nodes[i]), CidOf(nodes[i - 1]))}

MinOf(S) == CHOOSE i \in S : \A j \in S : i <= j

ValidateClaimed(nodes, out, bad) ==
    IF bad = {} THEN out.kind = "Ok"
    ELSE /\ out.kind = "InvalidProof"
         /\ out.link = CidOf(nodes[MinOf(bad) - 1])
         /\ out.data = nodes[MinOf(bad)]

\* C6: validate() returns InvalidProof exactly when some adjacent pair
\* (child, parent) has no link of parent equal to the default CID of
\* child, naming that CID and the bytes of the first such parent; in every
\* other case it returns Ok.
C6_ValidateIffBrokenPair ==
    last.op = "validate"
    => ValidateClaimed(last.nodes, last.out, BrokenPairs(last.nodes))

\* What C6 says does hold on the proofs validate() runs through: those
\* with a node, none of which aborts the scanner.
ScansClean(nodes) ==
    nodes # <<>> /\ \A i \in 2..Len(nodes) : LinkScan(nodes[i]).end = "none"

ValidateIffBrokenPairWhenScanned ==
    (last.op = "validate" /\ ScansClean(last.nodes))
    => ValidateClaimed(last.nodes, last.out, BrokenPairs(last.nodes))

(***************************************************************************)
(* Properties of the recording store, stated on steps: the unprimed        *)
(* variables are the state the call was made in.                           *)
(***************************************************************************)
\* What a get_bytes step that ended in `out` must have done to the table
\* tbl, the base then answering `now` for the CID.
GetBytesClaimed(tbl, tbl2, out, now) ==
    /\ out.res = out.base_res
    /\ out.res.ok => out.res.val = now
    /\ tbl2 = IF out.res.ok /\ now # None /\ out.cid \notin DOMAIN tbl
              THEN [x \in DOMAIN tbl \cup {out.cid} |->
                       IF x = out.cid THEN now[1] ELSE tbl[x]]
              ELSE tbl

\* C7: get_bytes(cid) returns what the base returns for cid at that moment,
\* never the table's bytes; it adds (cid, b) to the table only when the base
\* returns Some(b), and leaves the table alone when the base returns None or
\* fails.
C7_GetBytesPassThrough ==
    [][last'.op = "get_bytes"
       => GetBytesClaimed(visited, visited', last',
                          StoreRead(base, CidToBytes(last'.cid)))]_vars

\* get_bytes answered None for a CID whose earlier bytes the table still
\* holds: the base entry was deleted in between.
C7_Witness ==
    /\ last.op = "get_bytes"
    /\ last.res = Ok(None)
    /\ last.cid \in DOMAIN visited

\* C8: once a CID is a key of the witness table, no step removes it or
\* replaces its bytes.
C8_FirstWriterWins ==
    [][\A k \in DOMAIN visited : k \in DOMAIN visited' /\ visited'[k] = visited[k]]_vars

\* A later get_bytes of a witnessed CID returned other bytes than the table
\* holds for it.
C8_Witness ==
    /\ last.op = "get_bytes"
    /\ last.res.ok
    /\ last.res.val # None
    /\ last.cid \in DOMAIN visited
    /\ visited[last.cid] # last.res.val[1]

\* What a put_raw step that ended in `out` must have done, c being the CID
\* of the bytes under the code given.
PutRawClaimed(tbl, tbl2, b, b2, out, c) ==
    /\ out.cid = c
    /\ tbl2 = IF c \in DOMAIN tbl THEN tbl
              ELSE [x \in DOMAIN tbl \cup {c} |-> IF x = c THEN out.bytes ELSE tbl[x]]
    /\ IF out.write_failed
       THEN out.res = Err /\ b2 = b
       ELSE out.res = Ok(Some(c)) /\ b2 = StoreWrite(b, CidToBytes(c), out.bytes)

\* C9: put_raw(bytes, code) enters (hash(bytes, code), bytes) in the table
\* whether or not the write to the base succeeds; when the write fails the
\* error is returned, no CID is, and the entry stays.
C9_PutRawRecordsBeforeWrite ==
    [][last'.op = "put_raw"
       => PutRawClaimed(visited, visited', base, base', last',
                        new_from_cbor(last'.bytes, last'.code))]_vars

\* A put_raw whose write failed: the caller got the error, the table has the
\* entry, the base has nothing under the CID.
C9_Witness ==
    /\ last.op = "put_raw"
    /\ last.write_failed
    /\ last.res = Err
    /\ last.cid \in DOMAIN visited
    /\ visited[last.cid] = last.bytes
    /\ CidToBytes(last.cid) \notin DOMAIN base

RawOps == {"read", "write", "delete", "exists", "bulk_read", "bulk_write", "bulk_delete"}

\* What the base holds the answer of a raw read to.
RawAnswer(b, out) ==
    CASE out.op = "read" -> StoreRead(b, out.keys[1])
      [] out.op = "exists" -> <<out.keys[1] \in DOMAIN b>>
      [] out.op = "bulk_read" -> StoreBulkRead(b, out.keys, 1)
      [] OTHER -> <<>>

\* C10: read, write, delete, exists, bulk_read, bulk_write and bulk_delete
\* leave the witness table as it was, whatever the keys, and return the
\* base's result.
C10_RawOpsLeaveTable ==
    [][last'.op \in RawOps
       => /\ visited' = visited
          /\ last'.res = last'.base_res
          /\ last'.res.ok => last'.res.val = RawAnswer(base, last')]_vars

\* A raw call that changed the base under the byte form of a CID the table
\* holds.
C10_Witness ==
    /\ last.op \in {"write", "delete", "bulk_write", "bulk_delete"}
    /\ last.res.ok
    /\ \E c \in DOMAIN visited :
          /\ SeqHas(last.keys, CidToBytes(c))
          /\ StoreRead(base, CidToBytes(c)) # Some(visited[c])

(***************************************************************************)
(* The link scanner on its own: one scanner over one byte input, run one   *)
(* turn of the loop of next() at a time.  last is the scanner: the input,  *)
(* the build (chk: overflow checks on), the reader offset, the remaining   *)
(* counter, the links yielded so far, and how it stands: "ready" (next()   *)
(* can be called or is looping), "none" (it returned None) or "panic".     *)
(* wrapped records that a += or -= on the counter went out of the word.    *)
(***************************************************************************)
\* Tag 42 over byte strings of declared length 0, 1, 71, 100 and 101, and
\* over a truncated one.
LinkEdgeInputs ==
    {<<216, 42, 64>>, <<216, 42, 65, 0>>, <<216, 42, 88, 71>>, <<216, 42, 88, 100>>,
     <<216, 42, 88, 101>>, <<216, 42, 72, 0, 1>>}

\* Malformed and non-canonical input: nothing, a break code, a one-byte
\* length below 24, a two-byte length below 256, a truncated header.
MalformedInputs == {<<>>, <<255>>, <<24, 5>>, <<153, 0, 1, 8>>, <<25, 1>>}

\* Array and map headers with counts of 2^64-1 and 2^63, and a tag over an
\* integer.
CountInputs ==
    {<<155, 255, 255, 255, 255, 255, 255, 255, 255>>,
     <<187, 128, 0, 0, 0, 0, 0, 0, 0>>,
     <<187, 255, 255, 255, 255, 255, 255, 255, 255>>,
     <<198, 8>>, BlkWrap}

\* Byte strings whose declared length is 2^64-1, 2^64-10 (inside an array
\* of two) and 2^63.
SeekInputs ==
    {<<91, 255, 255, 255, 255, 255, 255, 255, 255>>,
     <<130, 91, 255, 255, 255, 255, 255, 255, 255, 246>>,
     <<91, 128, 0, 0, 0, 0, 0, 0, 0>>}

RawScanInputs ==
    LinkEdgeInputs \cup MalformedInputs \cup CountInputs \cup SeekInputs \cup Blocks

\* `a` is the sum U64Add gave: the += carried, or the -= 1 after it
\* borrowed.
WrapsAfter(a) == a.carry \/ U64Sub(a.v, U64One).borrow

WrapsTwice(rem, m) == m.carry \/ WrapsAfter(U64Add(rem, m.v))

\* Whether a += or -= of the turn on header h leaves the word.
StepWraps(rem, h) ==
    IF ~h.ok THEN FALSE
    ELSE IF h.maj = 4 THEN WrapsAfter(U64Add(rem, h.extra))
    ELSE IF h.maj = 5 THEN WrapsTwice(rem, U64Add(h.extra, h.extra))
    ELSE IF h.maj = 6 /\ h.extra # U64Of(42) THEN WrapsAfter(U64Add(rem, U64One))
    ELSE U64Sub(rem, U64One).borrow

ScanState(bz, chk, pos, rem, links, status, steps, wrapped) ==
    [op |-> "scan", bytes |-> bz, chk |-> chk, pos |-> pos, remaining |-> rem,
     links |-> links, status |-> status, steps |-> steps, wrapped |-> wrapped]

\* LinkScanner::from(bytes)
ScanStart(bz, chk) ==
    ScanState(bz, chk, ScannerNew.pos, ScannerNew.remaining, <<>>, "ready", 0, FALSE)

\* The scanner after a turn of the loop that came out as r.
ScanTurn(sc, r, wraps) ==
    ScanState(sc.bytes, sc.chk, r.pos, r.remaining,
              IF r.kind = "yield" THEN Append(sc.links, r.cid) ELSE sc.links,
              IF r.kind \in {"continue", "yield"} THEN "ready" ELSE r.kind,
              sc.steps + 1, sc.wrapped \/ wraps)

\* One turn of `while self.remaining > 0`.
scan_step ==
    /\ last.op = "scan"
    /\ last.status = "ready"
    /\ last.remaining # U64Zero
    /\ last.steps < MaxScanSteps
    /\ last' = ScanTurn(last,
                        ScanStep(last.bytes, last.pos, last.remaining, overflow_checks),
                        StepWraps(last.remaining,
                                  cbor_read_header_buf(last.bytes, last.pos)))
    /\ base_calls' = <<>>
    /\ UNCHANGED <<base, visited, observed, overflow_checks, held>>

\* The loop condition fails: next() returns None.
scan_end ==
    /\ last.op = "scan"
    /\ last.status = "ready"
    /\ last.remaining = U64Zero
    /\ last' = [last EXCEPT !.status = "none"]
    /\ base_calls' = <<>>
    /\ UNCHANGED <<base, visited, observed, overflow_checks, held>>

(***************************************************************************)
(* Well-formed canonical CBOR documents, as trees, with their encoding and *)
(* the links they hold in document order.  A tree is a record: t the kind  *)
(* of item, n its number (integer value, tag number, simple value, float   *)
(* width code), items its children, bz its payload bytes, c its CID.       *)
(***************************************************************************)
Item(t, n, items, bz, c) == [t |-> t, n |-> n, items |-> items, bz |-> bz, c |-> c]

DInt(n) == Item("int", n, <<>>, <<>>, NoCid.cid)

DNeg(n) == Item("neg", n, <<>>, <<>>, NoCid.cid)

DBytes(bz) == Item("bytes", 0, <<>>, bz, NoCid.cid)

DText(bz) == Item("text", 0, <<>>, bz, NoCid.cid)

DArr(items) == Item("arr", 0, items, <<>>, NoCid.cid)

\* items: key, value, key, value, ...
DMap(items) == Item("map", 0, items, <<>>, NoCid.cid)

DTag(n, item) == Item("tag", n, <<item>>, <<>>, NoCid.cid)

DLink(c) == Item("link", 0, <<>>, <<>>, c)

\* false (20), true (21), null (22)
DSimple(n) == Item("simple", n, <<>>, <<>>, NoCid.cid)

\* A float of width code n (25: half, 27: double) with the bits bz.
DFloat(n, bz) == Item("float", n, <<>>, bz, NoCid.cid)

RECURSIVE Enc(_)
RECURSIVE EncItems(_, _)
EncItems(items, i) ==
    IF i > Len(items) THEN <<>> ELSE Enc(items[i]) \o EncItems(items, i + 1)

Enc(d) ==
    CASE d.t = "int" -> CborHead(0, d.n)
      [] d.t = "neg" -> CborHead(1, d.n)
      [] d.t = "bytes" -> CborHead(2, Len(d.bz)) \o d.bz
      [] d.t = "text" -> CborHead(3, Len(d.bz)) \o d.bz
      [] d.t = "arr" -> CborHead(4, Len(d.items)) \o EncItems(d.items, 1)
      [] d.t = "map" -> CborHead(5, Len(d.items) \div 2) \o EncItems(d.items, 1)
      [] d.t = "tag" -> CborHead(6, d.n) \o EncItems(d.items, 1)
      [] d.t = "link" -> EncLink(d.c)
      [] d.t = "simple" -> <<224 + d.n>>
      [] d.t = "float" -> <<224 + d.n>> \o d.bz

RECURSIVE RefLinks(_)
RECURSIVE RefLinksOf(_, _)
RefLinksOf(items, i) ==
    IF i > Len(items) THEN <<>> ELSE RefLinks(items[i]) \o RefLinksOf(items, i + 1)

\* The CIDs under tag 42 in d, in document order.
RefLinks(d) == IF d.t = "link" THEN <<d.c>> ELSE RefLinksOf(d.items, 1)

RECURSIVE HasFloat(_)
HasFloat(d) == d.t = "float" \/ \E i \in 1..Len(d.items) : HasFloat(d.items[i])

LeafLink == DLink(CidOf(BlkLeaf))

MidLink == DLink(CidOf(BlkMid))

\* 1.5 as a double; 0.0 as a double (the dag-cbor form) and as a half (the
\* shortest form).
FloatDocs ==
    {DArr(<<DFloat(27, <<63, 248, 0, 0, 0, 0, 0, 0>>), LeafLink>>),
     DArr(<<DFloat(27, <<0, 0, 0, 0, 0, 0, 0, 0>>), LeafLink>>),
     DArr(<<DFloat(25, <<0, 0>>), LeafLink>>)}

Docs ==
    {DInt(8),
     DArr(<<>>),
     DArr(<<DInt(5), LeafLink>>),
     DMap(<<DText(<<100>>), MidLink>>),
     DArr(<<LeafLink, DArr(<<MidLink, DTag(7, LeafLink)>>),
            DMap(<<DText(<<97>>), DArr(<<LeafLink>>), DText(<<98>>), DInt(200)>>),
            MidLink>>),
     DArr(<<DBytes(Enc(LeafLink)), LeafLink, DBytes(<<>>)>>),
     DArr(<<DSimple(22), DSimple(21), DNeg(2), DInt(200), DTag(2, DBytes(<<1, 0>>)),
            MidLink>>)} \cup FloatDocs

DocInputs == {Enc(d) : d \in Docs}

ScanInputs == RawScanInputs \cup DocInputs

\* One scanner, fresh, over one of the inputs, in either build.
InitScan ==
    /\ base = EmptyMap
    /\ visited = EmptyMap
    /\ observed = {}
    /\ overflow_checks \in BOOLEAN
    /\ base_calls = <<>>
    /\ held = None
    /\ last \in {ScanStart(bz, overflow_checks) : bz \in ScanInputs}

NextScan ==
    \/ scan_step
    \/ scan_end

SpecScan == InitScan /\ [][NextScan]_vars

(***************************************************************************)
(* Properties of the link scanner.                                         *)
(***************************************************************************)
\* C11: on every byte input the scanner ends its sequence silently and
\* never aborts, whatever length a tag-42 byte string declares.  Stated on
\* the runs whose counter stayed inside the word, so that an abort here is
\* not one of the counter's.
C11_ScannerNeverAborts ==
    (last.op = "scan" /\ ~last.wrapped) => last.status # "panic"

\* The document a byte input encodes.
DocOf(bz) == CHOOSE d \in Docs : Enc(d) = bz

ScanMatchesDoc(sc, d) ==
    /\ sc.status # "panic"
    /\ sc.status = "none" => (sc.links = RefLinks(d) /\ sc.remaining = U64Zero)
    /\ sc.status = "ready" => (sc.remaining = U64Zero <=> sc.pos = Len(sc.bytes))

\* C19: on a well-formed canonical CBOR block the scanner yields exactly
\* the CIDs under tag 42, each once and in document order, nested ones
\* included and none from inside a byte string, and its counter is 0
\* exactly when the top-level item has been consumed.
C19_ScannerYieldsDocLinks ==
    (last.op = "scan" /\ last.bytes \in DocInputs)
    => ScanMatchesDoc(last, DocOf(last.bytes))

\* What C19 says does hold on the documents without a float.
ScannerYieldsLinksOfFloatFreeDocs ==
    (last.op = "scan" /\ last.bytes \in DocInputs /\ ~HasFloat(DocOf(last.bytes)))
    => ScanMatchesDoc(last, DocOf(last.bytes))

\* C20: the remaining counter never goes below zero and never wraps
\* around the word, whatever count an array or map header declares.
C20_CounterNeverWraps == last.op = "scan" => ~last.wrapped

\* The turn of the loop taken from the scanner sc left it ready for
\* another one, at the offset p.
TurnedTo(sc, p) == sc.op = "scan" /\ sc.status = "ready" /\ p = sc.pos

\* The header the turn from the scanner sc reads is a string header whose
\* declared length is negative as an i64.
ReadsNegativeSeek(sc, h) == h.ok /\ h.maj \in {2, 3} /\ I64Negative(h.extra)

\* C21: every turn of the scan loop moves the reader strictly forward or
\* ends the sequence; a string header of any declared length never moves
\* it backward.
C21_ScannerMovesForward ==
    [][TurnedTo(last', last'.pos) => last'.pos > last.pos]_vars

\* What C21 says does hold on the turns whose string header declares a
\* length below 2^63.
ScannerMovesForwardOnShortStrings ==
    [][(TurnedTo(last', last'.pos)
        /\ ~ReadsNegativeSeek(last, cbor_read_header_buf(last.bytes, last.pos)))
       => last'.pos > last.pos]_vars

(***************************************************************************)
(* The generator over tables of every kind put_raw can build: blocks of    *)
(* the DAG and outside it, filed under either hash code, and blocks the    *)
(* scanner does not read to the end.                                       *)
(***************************************************************************)
GenPuts ==
    {<<BlkLeaf, DEFAULT_HASH_CODE>>, <<BlkMid, DEFAULT_HASH_CODE>>,
     <<BlkMid, Sha2_256>>, <<BlkRoot, DEFAULT_HASH_CODE>>,
     <<BlkDead, DEFAULT_HASH_CODE>>, <<BlkDead, Sha2_256>>,
     <<BlkAlien, DEFAULT_HASH_CODE>>, <<BlkUnrel, DEFAULT_HASH_CODE>>,
     <<BlkBad, DEFAULT_HASH_CODE>>, <<BlkLoop, DEFAULT_HASH_CODE>>,
     <<BlkWrap, DEFAULT_HASH_CODE>>}

\* The roots generate_proof_raw is asked to reach from the leaf.
GenTargets ==
    {None, Some(CidOf(BlkLeaf)), Some(CidOf(BlkMid)), Some(CidOf(BlkDead)),
     Some(CidOf(BlkRoot))}

NextGen ==
    \/ \E p \in GenPuts : put_raw(p[1], p[2], FALSE)
    \/ \E b \in GenItems : generate_proof(b)
    \/ \E b \in GenItems, r \in GenRoots : generate_proof_to_cid(b, r)
    \/ \E b \in GenItems, t \in GenTargets : generate_raw(b, t)

SpecGen == Init /\ [][NextGen]_vars

(***************************************************************************)
(* Properties of the search, stated on the generation call recorded in     *)
(* last and the table it searched.                                         *)
(***************************************************************************)
\* The call was asked for a root.
RootGiven == IsGeneration /\ last.root # None

\* The search ran to its end without the current CID being the root asked
\* for, or with none asked for.
EndedOffRoot ==
    /\ IsGeneration
    /\ last.kind = "Ok"
    /\ last.root = None \/ last.cur # last.root[1]

\* No node below the last one has the CID c.
NothingAbove(nodes, c) == \A i \in 1..(Len(nodes) - 1) : CidOf(nodes[i]) # c

StopsAtRoot ==
    /\ NothingAbove(last.nodes, last.root[1])
    /\ CidOf(last.bytes) = last.root[1]
       => (last.nodes = <<last.bytes>> /\ validate(last.nodes).kind = "Ok")

\* C12: with a root given the chain ends at the first node whose CID is the
\* root, with nothing above it; when the leaf itself has that CID the proof
\* is the leaf alone, whatever the table holds, and it validates.
C12_StopsAtRoot == (RootGiven /\ last.kind = "Ok") => StopsAtRoot

\* What C12 says does hold on the tables whose keys are the default CIDs of
\* their bytes.
StopsAtRootOnGenuineTable ==
    (RootGiven /\ last.kind = "Ok" /\ TableGenuine) => StopsAtRoot

(***************************************************************************)
(* The caller keeps the Proof a generation returned while the recorder     *)
(* goes on reading and writing, the store is rewritten under it, and the   *)
(* recorder is dropped.                                                    *)
(***************************************************************************)
\* `let proof = p_gen.generate_proof(..)?`: the Proof returned is moved to
\* the caller.  Its nodes are the `bytes` argument and clones of the table's
\* byte vectors, which the Proof owns.
keep_proof ==
    /\ IsGeneration
    /\ last.kind = "Ok"
    /\ held # Some(last.nodes)
    /\ held' = Some(last.nodes)
    /\ UNCHANGED <<base, visited, last, observed, overflow_checks, base_calls>>

\* The ProofGenerator goes out of scope: its witness table is dropped with
\* it, the base it borrowed stays.  The calls after it are made on a
\* ProofGenerator::new over the same base.
drop_generator ==
    /\ visited # EmptyMap
    /\ visited' = EmptyMap
    /\ observed' = {}
    /\ last' = [op |-> "drop"]
    /\ base_calls' = <<>>
    /\ UNCHANGED <<base, overflow_checks, held>>

HoldPuts ==
    {<<BlkLeaf, DEFAULT_HASH_CODE>>, <<BlkMid, DEFAULT_HASH_CODE>>,
     <<BlkRoot, DEFAULT_HASH_CODE>>, <<BlkUnrel, DEFAULT_HASH_CODE>>}

HoldCids == {CidOf(BlkLeaf), CidOf(BlkMid)}

HoldTargets == {None, Some(CidOf(BlkMid))}

NextHold ==
    \/ \E c \in HoldCids : get_bytes(c, FALSE)
    \/ \E p \in HoldPuts, f \in BOOLEAN : put_raw(p[1], p[2], f)
    \/ \E v \in TamperVals : write(LeafKey, v, FALSE)
    \/ \E b \in GenItems : generate_proof(b)
    \/ \E b \in GenItems, r \in GenRoots : generate_proof_to_cid(b, r)
    \/ \E b \in GenItems, t \in HoldTargets : generate_raw(b, t)
    \/ keep_proof
    \/ drop_generator

SpecHold == Init /\ [][NextHold]_vars

\* The step is a generation call.
GenerationStep ==
    /\ last'.op \in {"generate_proof", "generate_proof_to_cid", "generate_proof_raw"}
    /\ held' = held

\* The step is the caller keeping the Proof the last generation returned.
KeepStep ==
    /\ IsGeneration
    /\ last.kind = "Ok"
    /\ last' = last
    /\ held' = Some(last.nodes)

\* C13: a generation call, whatever it returns, leaves the witness table
\* and the underlying store as they were and makes no call on the
\* underlying store; and the Proof it returned, once with the caller, has
\* its own bytes: they are the nodes returned, and no later call on the
\* recorder, no rewrite of the store and no drop of the recorder changes
\* them.
C13_GenerationReadOnly ==
    [][/\ GenerationStep
          => (visited' = visited /\ base' = base /\ base_calls' = <<>>)
       /\ held' # held => KeepStep]_vars

\* The caller keeps a proof of two nodes or more; since it was returned the
\* recorder was dropped, so that no node of the proof is in a table any
\* more, and the last step rewrote the store under the leaf's key with
\* other bytes than the proof has for the leaf.
C13_Witness ==
    /\ held # None
    /\ Len(held[1]) >= 2
    /\ visited = EmptyMap
    /\ last.op = "write"
    /\ base[LeafKey] # held[1][1]

\* Parents and ancestors by the links of a table tbl.
UpIn(tbl, S) ==
    S \cup {k \in DOMAIN tbl : \E c \in S : SeqHas(Links(tbl[k]), c)}

RECURSIVE UpClosureIn(_, _, _)
UpClosureIn(tbl, S, n) == IF n = 0 THEN S ELSE UpClosureIn(tbl, UpIn(tbl, S), n - 1)

AncestorsIn(tbl, c) == UpClosureIn(tbl, {c}, Cardinality(DOMAIN tbl))

HasParentIn(tbl, c) == \E k \in DOMAIN tbl : SeqHas(Links(tbl[k]), c)

\* The keys of the table outside the DAG of the leaf: neither above the
\* leaf nor linked from a block above it.
OutsideKeys(tbl, above) ==
    {k \in DOMAIN tbl \ above :
        \A a \in above \cap DOMAIN tbl : ~SeqHas(Links(tbl[a]), k)}

Without(tbl, keys) == [k \in DOMAIN tbl \ keys |-> tbl[k]]

\* The table without the blocks outside the DAG of the leaf.
InsideTable(tbl, leaf) == Without(tbl, OutsideKeys(tbl, AncestorsIn(tbl, CidOf(leaf))))

\* A good outcome g of generation for leaf over tbl: Ok, valid and, with no
\* root asked for, ending on an ancestor of the leaf that has no parent.
SoundProof(tbl, leaf, root_opt, g) ==
    /\ g.kind = "Ok"
    /\ validate(g.nodes).kind = "Ok"
    /\ root_opt = None
       => /\ root(g.nodes).cid \in AncestorsIn(tbl, CidOf(leaf))
          /\ ~HasParentIn(tbl, root(g.nodes).cid)

SoundOn(tbl, leaf, root_opt) ==
    \A o \in Orders(tbl) :
        SoundProof(tbl, leaf, root_opt, generate_proof_raw(tbl, o, leaf, root_opt))

\* The table holds a block outside the DAG of the leaf, and without those
\* blocks every generation for the leaf is good.
OutsideObserved ==
    /\ IsGeneration
    /\ InsideTable(visited, last.bytes) # visited
    /\ SoundOn(InsideTable(visited, last.bytes), last.bytes, last.root)

\* C14: blocks observed outside the DAG of the leaf change nothing: the
\* generation that is good without them still returns Ok, a proof that
\* validates and, with no root asked for, ends on a top ancestor of the leaf.
C14_OutsideBlocksHarmless ==
    OutsideObserved => SoundProof(visited, last.bytes, last.root, last)

ScansToEnd(bz) == LinkScan(bz).end = "none"

\* What C14 says does hold when the scanner reads every block of the table
\* to its end.
OutsideBlocksHarmlessWhenScanned ==
    (OutsideObserved /\ \A k \in DOMAIN visited : ScansToEnd(visited[k]))
    => SoundProof(visited, last.bytes, last.root, last)

\* C16: when the search ends off the root, the CID of the last node of the
\* chain has no parent in the table: the scanned links of no witnessed
\* block contain it.
C16_ChainIsMaximal ==
    EndedOffRoot => ~HasParentIn(visited, root(last.nodes).cid)

\* What C16 says does hold on the tables whose keys are the default CIDs of
\* their bytes.
ChainIsMaximalOnGenuineTable ==
    (EndedOffRoot /\ TableGenuine) => ~HasParentIn(visited, root(last.nodes).cid)

\* The call was given a root, found the leaf, did not abort, and its
\* current CID never was the root.
MissedRoot ==
    /\ RootGiven
    /\ last.kind \notin {"NodeNotFound", "Panic", "Running"}
    /\ last.cur # last.root[1]

MissIsOk ==
    /\ last.kind = "Ok"
    /\ last.nodes # <<>>
    /\ last.nodes[1] = last.bytes
    /\ root(last.nodes).cid # last.root[1]

\* C17: a search that runs out of table entries without reaching the root
\* given returns Ok with the chain built so far, and the root() of that
\* proof differs from the root asked for.
C17_MissReturnsOk == MissedRoot => MissIsOk

\* What C17 says does hold on the tables whose keys are the default CIDs of
\* their bytes.
MissReturnsOkOnGenuineTable == (MissedRoot /\ TableGenuine) => MissIsOk

NodesDistinct(nodes) ==
    \A i, j \in 1..Len(nodes) : nodes[i] = nodes[j] => i = j

SinglePass ==
    /\ last.kind # "Running"
    /\ last.scanned <= Cardinality(DOMAIN visited)
    /\ (last.kind = "Ok" /\ TableAcyclic)
       => /\ Len(last.nodes) <= Cardinality(DOMAIN visited)
          /\ NodesDistinct(last.nodes)

\* C18: the search ends for every table, hands out each table entry at
\* most once, and on an acyclic table returns at most as many nodes as the
\* table has entries, none of them twice.
C18_SearchTerminates == IsGeneration => SinglePass

\* What C18 says does hold when the scanner reads every block of the table
\* to its end or aborts.
SearchTerminatesWhenScansEnd ==
    (IsGeneration /\ \A k \in DOMAIN visited : LinkScan(visited[k]).end # "running")
    => SinglePass

(***************************************************************************)
(* The wire form on its own: a Proof is serialized and the bytes are       *)
(* deserialized again.  last is the Proof, then the Proof with its wire    *)
(* bytes, then both with the Proof read back.                              *)
(***************************************************************************)
\* The longest proof drawn node by node.
MaxWireNodes == 3

\* A node of 30 bytes, whose length takes a header of two bytes.
LongNode == [i \in 1..30 |-> i]

\* Node contents: nothing, one byte, a block with a link, a break code, and
\* a long node.
WireNodes == {<<>>, BlkLeaf, BlkMid, <<255>>, LongNode}

\* A proof of 24 nodes, whose count takes a header of two bytes.
LongProof == [i \in 1..24 |-> IF i = 2 THEN BlkMid ELSE BlkLeaf]

WireProofs ==
    UNION {[1..n -> WireNodes] : n \in 0..MaxWireNodes} \cup {LongProof}

InitWire ==
    /\ base = EmptyMap
    /\ visited = EmptyMap
    /\ observed = {}
    /\ last \in {[op |-> "proof", nodes |-> p] : p \in WireProofs}
    /\ overflow_checks \in BOOLEAN
    /\ base_calls = <<>>
    /\ held = None

\* serde_cbor::to_vec(&proof)
wire_serialize ==
    /\ last.op = "proof"
    /\ last' = [op |-> "serialized", nodes |-> last.nodes, wire |-> Serialize(last.nodes)]
    /\ base_calls' = <<>>
    /\ UNCHANGED <<base, visited, observed, overflow_checks, held>>

WireBack(sent, d) ==
    [op |-> "deserialized", nodes |-> sent.nodes, wire |-> sent.wire,
     ok |-> d.ok, back |-> d.nodes]

\* serde_cbor::from_slice::<Proof>(&wire)
wire_deserialize ==
    /\ last.op = "serialized"
    /\ last' = WireBack(last, Deserialize(last.wire))
    /\ base_calls' = <<>>
    /\ UNCHANGED <<base, visited, observed, overflow_checks, held>>

NextWire ==
    \/ wire_serialize
    \/ wire_deserialize

SpecWire == InitWire /\ [][NextWire]_vars

\* C15: a Proof serialized and deserialized again is the same Proof: the
\* same nodes in the same order, whatever their number and their bytes.
C15_WireRoundTrip ==
    last.op = "deserialized" => (last.ok /\ last.back = last.nodes)

\* A proof of three nodes, with an empty node and a long one among them
\* and two nodes that differ, has come back.
C15_Witness ==
    /\ last.op = "deserialized"
    /\ Len(last.nodes) = 3
    /\ last.nodes[1] # last.nodes[3]
    /\ \E i \in 1..3 : last.nodes[i] = <<>>
    /\ \E i \in 1..3 : last.nodes[i] = LongNode
    /\ last.back = last.nodes

(***************************************************************************)
(* The identity of the witness table's keys.                               *)
(***************************************************************************)
\* C22: whatever get_bytes and put_raw calls were made, with any hash code
\* and any content of the underlying store, every entry of the witness
\* table has for its key the CID of its bytes under the default hash.
C22_TableKeyedByDefaultCid ==
    \A k \in DOMAIN visited : new_from_cbor(visited[k], DEFAULT_HASH_CODE) = k

====
